---- MODULE Spec2Model ----
(***************************************************************************)
(* Model of src/app.py: the Flask application that turns an interest into  *)
(* a learning roadmap by trying the models of SUPPORTED_MODELS in order,   *)
(* and saves the roadmap to roadmaps/roadmap_<timestamp>.txt.              *)
(*                                                                         *)
(* Strings the code inspects or concatenates (the interest, the roadmap,   *)
(* the file contents) are sequences of one-character strings; strings the  *)
(* code only passes around (model names, error messages) are TLA+ strings. *)
(* A request handler is cut at the points where it blocks (the completion  *)
(* call, the file operations), so that handlers of concurrent requests     *)
(* interleave there, as the threads of the Flask server do.                *)
(***************************************************************************)
EXTENDS Integers, Sequences, FiniteSets, TLC

VARIABLES
    API_KEY,     \* os.environ.get("GROQ_API_KEY"), None when unset
    proc,        \* "boot", "crashed" (module import raised) or "serving"
    client,      \* the module-level Groq client: "Groq" or None
    now,         \* the wall clock, in ticks
    files,       \* the roadmaps/ directory: file name -> [exists, data]
    pc,          \* per request: position of its handler
    route,       \* per request: "generate_roadmap" or "test_groq"
    form,        \* per request: the posted form
    interest,    \* per request: local variable interest
    idx,         \* per request: position of the for loop in SUPPORTED_MODELS
    last_error,  \* per request: local variable last_error
    last_trace,  \* per request: local variable last_trace
    roadmap,     \* per request: local variable roadmap
    filename,    \* per request: local variable filename (open file)
    resp,        \* per request: the response returned
    attempts,    \* history: the completion calls of the request, in order
    written,     \* history: the file names the request opened for writing
    log,         \* the records logger.exception wrote, in order
    budget       \* environment: failures it may still inject

vars == <<API_KEY, proc, client, now, files, pc, route, form, interest, idx,
          last_error, last_trace, roadmap, filename, resp, attempts, written,
          log, budget>>

(***************************************************************************)
(* Bounds of the model.                                                    *)
(***************************************************************************)
NumReq == 2          \* requests the server receives
MaxClock == 2        \* the clock stops ticking here
TicksPerSecond == 2  \* clock ticks in one second of the timestamp
MaxFaults == 2       \* failures (raised errors) injected while requests overlap

Req == 1..NumReq

None == "<None>"

\* GROQ_API_KEY in the environment: unset, set to the empty string, set.
EnvValues == {None, "", "gsk_key"}

\* The interest field of the posted form: missing, or one of these strings.
InterestStrings == {<<>>, <<" ">>, <<"a">>}
Forms == {[has |-> FALSE, val |-> <<>>]}
           \cup {[has |-> TRUE, val |-> s] : s \in InterestStrings}

\* What the Completion Client raises, and what it returns.
Errors == {"TimeoutError", "AuthenticationError"}
Texts == {<<"x">>, <<"y", "y">>}

SUPPORTED_MODELS ==
    << "llama-3.1-8b-instant",
       "llama-3.3-70b-versatile",
       "meta-llama/llama-guard-4-12b",
       "openai/gpt-oss-120b" >>

N == Len(SUPPORTED_MODELS)

(***************************************************************************)
(* Pure helpers.                                                           *)
(***************************************************************************)
\* (A truthiness test that only looks for None.)
KeyTruthyNoneOnly(k) == k # None

\* Python truthiness of an optional environment string: `not API_KEY`.
KeyTruthy(k) == k # None /\ k # ""

\* request.form.get('interest') followed by `if not interest`.
FormTruthy(f) == f.has /\ Len(f.val) > 0

\* datetime.now().strftime("%Y%m%d_%H%M%S"): the clock cut to whole seconds.
Timestamp(t) == t \div TicksPerSecond

\* f"roadmaps/roadmap_{timestamp}.txt": one name per timestamp.
FileName(ts) == ts

FileNames == {FileName(Timestamp(t)) : t \in 0..MaxClock}

NoFile == [exists |-> FALSE, data |-> <<>>]

\* f.write(f"Roadmap for: {interest}\n\n"); f.write(roadmap)
Header(i) == <<"Roadmap for: ">> \o i \o <<"\n\n">>
Document(i, text) == Header(i) \o text

\* A buffered write flushed at offset 0 of a file opened with "w": the bytes
\* replace the start of what the file holds at that moment.
WriteAt(old, data) ==
    IF Len(old) > Len(data)
    THEN data \o SubSeq(old, Len(data) + 1, Len(old))
    ELSE data

(***************************************************************************)
(* Responses (jsonify(...), status).                                       *)
(***************************************************************************)
NoResp == [status |-> 0, keys |-> {}, error |-> None, details |-> None,
           traceback |-> <<>>, roadmap |-> <<>>, filename |-> -1,
           model_used |-> None, ok |-> FALSE]

ClientNotInitialized ==
    [NoResp EXCEPT !.status = 500, !.keys = {"error"},
                   !.error = "API client not initialized"]

InterestRequired ==
    [NoResp EXCEPT !.status = 400, !.keys = {"error"},
                   !.error = "Interest field is required"]

Success(text, file, model) ==
    [NoResp EXCEPT !.status = 200, !.keys = {"roadmap", "filename", "model_used"},
                   !.roadmap = text, !.filename = file, !.model_used = model]

AllModelsFailed(err, trace) ==
    [NoResp EXCEPT !.status = 500,
                   !.keys = {"error", "details", "traceback", "suggestion"},
                   !.error = "All models failed",
                   !.details = err, !.traceback = trace]

TestNotInitialized ==
    [NoResp EXCEPT !.status = 500, !.keys = {"ok", "error"},
                   !.error = "client not initialized"]

TestOk(text, model) ==
    [NoResp EXCEPT !.status = 200, !.keys = {"ok", "model", "response"},
                   !.ok = TRUE, !.model_used = model, !.roadmap = text]

TestFailed(err) ==
    [NoResp EXCEPT !.status = 500, !.keys = {"ok", "error", "traceback"},
                   !.error = err, !.traceback = <<err>>]

(***************************************************************************)
(* Initial state: the module is about to be imported; `present` are the    *)
(* requests that will arrive.                                              *)
(***************************************************************************)
InitWith(present, faults) ==
    /\ budget = faults
    /\ API_KEY \in EnvValues
    /\ proc = "boot"
    /\ client = None
    /\ now = 0
    /\ files = [f \in FileNames |-> NoFile]
    /\ pc = [r \in Req |-> IF r \in present THEN "idle" ELSE "absent"]
    /\ route = [r \in Req |-> None]
    /\ form = [r \in Req |-> [has |-> FALSE, val |-> <<>>]]
    /\ interest = [r \in Req |-> <<>>]
    /\ idx = [r \in Req |-> 0]
    /\ last_error = [r \in Req |-> None]
    /\ last_trace = [r \in Req |-> <<>>]
    /\ roadmap = [r \in Req |-> <<>>]
    /\ filename = [r \in Req |-> -1]
    /\ resp = [r \in Req |-> NoResp]
    /\ attempts = [r \in Req |-> <<>>]
    /\ written = [r \in Req |-> {}]
    /\ log = <<>>

\* NumReq requests arrive and may overlap; at most MaxFaults calls fail.
Init == InitWith(Req, MaxFaults)

\* A single request arrives. An iteration of its loop raises at most once,
\* so a budget of N failures lets every one of its calls or saves fail.
InitOne == InitWith({1}, N)

(***************************************************************************)
(* Module import (lines 20-38).                                            *)
(***************************************************************************)
\* `if not API_KEY: raise ValueError(...)`: the import fails, nothing serves.
StartupNoKey ==
    /\ proc = "boot"
    /\ ~KeyTruthy(API_KEY)
    /\ proc' = "crashed"
    /\ UNCHANGED <<log, API_KEY, client, now, files, pc, route, form, interest,
                   idx, last_error, last_trace, roadmap, filename, resp, attempts,
                   written, budget>>

\* `try: client = Groq(api_key=API_KEY) except Exception: client = None`:
\* the constructor returns or raises; either way the import goes on.
StartupClient ==
    /\ proc = "boot"
    /\ KeyTruthy(API_KEY)
    /\ \E constructed \in BOOLEAN :
          client' = IF constructed THEN "Groq" ELSE None
    /\ proc' = "serving"
    /\ UNCHANGED <<log, API_KEY, now, files, pc, route, form, interest,
                   idx, last_error, last_trace, roadmap, filename, resp, attempts,
                   written, budget>>

(***************************************************************************)
(* The handler of /generate_roadmap (lines 67-124).                        *)
(***************************************************************************)
\* The environment makes a call or a file operation raise.
Raises ==
    /\ budget > 0
    /\ budget' = budget - 1

Pending(k) == [model |-> SUPPORTED_MODELS[k], result |-> "pending", text |-> <<>>]

\* The last attempt of the request, now answered.
Answered(r, res, text) ==
    [attempts[r] EXCEPT ![Len(attempts[r])] =
        [model |-> @.model, result |-> res, text |-> text]]

\* `return jsonify(...)`: the response goes out and the locals of the loop
\* are gone.
Return(r, response) ==
    /\ resp' = [resp EXCEPT ![r] = response]
    /\ pc' = [pc EXCEPT ![r] = "done"]
    /\ idx' = [idx EXCEPT ![r] = 0]
    /\ last_error' = [last_error EXCEPT ![r] = None]
    /\ last_trace' = [last_trace EXCEPT ![r] = <<>>]
    /\ roadmap' = [roadmap EXCEPT ![r] = <<>>]
    /\ filename' = [filename EXCEPT ![r] = -1]

\* (A loop that tries the same model again.)
NextIndexRetry(k) == k

\* `for model in SUPPORTED_MODELS`: the first position, and the one after k.
FirstIndex == 1
NextIndex(k) == k + 1

\* The loop is at position k with attempt history att and the last error
\* err: either it calls client.chat.completions.create for model k, or the
\* list is exhausted and the handler returns 'All models failed'.
\* (roadmap and filename of a failed iteration are never read again: they
\* are cleared here.)
Iterate(r, k, err, trace, att) ==
    IF k <= N
    THEN /\ idx' = [idx EXCEPT ![r] = k]
         /\ last_error' = [last_error EXCEPT ![r] = err]
         /\ last_trace' = [last_trace EXCEPT ![r] = trace]
         /\ roadmap' = [roadmap EXCEPT ![r] = <<>>]
         /\ filename' = [filename EXCEPT ![r] = -1]
         /\ attempts' = [attempts EXCEPT ![r] = Append(att, Pending(k))]
         /\ pc' = [pc EXCEPT ![r] = "call"]
         /\ UNCHANGED resp
    ELSE /\ attempts' = [attempts EXCEPT ![r] = att]
         /\ Return(r, AllModelsFailed(err, trace))

\* `except Exception as e: logger.exception("Model %s failed", model);
\* last_error = str(e); last_trace = format_exc(); continue`.
Except(r, err, att) ==
    /\ log' = Append(log, [what |-> SUPPORTED_MODELS[idx[r]], error |-> err])
    /\ Iterate(r, NextIndex(idx[r]), err, <<err>>, att)

\* Lines 69-79: the request arrives with form f.
GenerateRoadmap(r, f) ==
    /\ proc = "serving"
    /\ pc[r] = "idle"
    /\ route' = [route EXCEPT ![r] = "generate_roadmap"]
    /\ form' = [form EXCEPT ![r] = f]
    /\ IF client = None
       THEN /\ Return(r, ClientNotInitialized)
            /\ UNCHANGED <<attempts, interest>>
       ELSE IF ~FormTruthy(f)
       THEN /\ Return(r, InterestRequired)
            /\ UNCHANGED <<attempts, interest>>
       ELSE /\ Iterate(r, FirstIndex, None, <<>>, attempts[r])
            /\ interest' = [interest EXCEPT ![r] = f.val]
    /\ UNCHANGED <<log, API_KEY, proc, client, now, files, written, budget>>

Begin(r) == \E f \in Forms : GenerateRoadmap(r, f)

\* Lines 82-98: the completion call returns a text, or raises.
CallReturns(r) ==
    /\ pc[r] = "call"
    /\ \/ \E t \in Texts :
            /\ roadmap' = [roadmap EXCEPT ![r] = t]
            /\ attempts' = [attempts EXCEPT ![r] = Answered(r, "ok", t)]
            /\ pc' = [pc EXCEPT ![r] = "save"]
            /\ UNCHANGED <<idx, last_error, last_trace, filename, resp, log,
                           budget>>
       \/ \E e \in Errors :
            /\ Raises
            /\ Except(r, e, Answered(r, e, <<>>))
    /\ UNCHANGED <<API_KEY, proc, client, now, files, route, form, interest,
                   written>>

\* Lines 101-104: the timestamp is taken, the directory made and the file
\* opened with "w", which creates or empties it.
SaveOpen(r) ==
    /\ pc[r] = "save"
    /\ LET name == FileName(Timestamp(now)) IN
         /\ filename' = [filename EXCEPT ![r] = name]
         /\ files' = [files EXCEPT ![name] = [exists |-> TRUE, data |-> <<>>]]
         /\ written' = [written EXCEPT ![r] = @ \cup {name}]
    /\ pc' = [pc EXCEPT ![r] = "write"]
    /\ UNCHANGED <<log, API_KEY, proc, client, now, route, form, interest, idx,
                   last_error, last_trace, roadmap, resp, attempts, budget>>

\* Lines 102-104 raise OSError (no permission, no space): inside the try.
SaveOpenFails(r) ==
    /\ pc[r] = "save"
    /\ Raises
    /\ Except(r, "OSError", attempts[r])
    /\ UNCHANGED <<API_KEY, proc, client, now, files, route, form, interest,
                   written>>

\* Lines 105-109: both writes are flushed when the file is closed, and the
\* handler returns the roadmap.
WriteClose(r) ==
    /\ pc[r] = "write"
    /\ files' = [files EXCEPT ![filename[r]] =
                    [exists |-> TRUE,
                     data |-> WriteAt(@.data, Document(interest[r], roadmap[r]))]]
    /\ Return(r, Success(roadmap[r], filename[r], SUPPORTED_MODELS[idx[r]]))
    /\ UNCHANGED <<log, API_KEY, proc, client, now, route, form, interest,
                   attempts, written, budget>>

\* Lines 105-106 raise OSError: the file stays as open() left it.
WriteFails(r) ==
    /\ pc[r] = "write"
    /\ Raises
    /\ Except(r, "OSError", attempts[r])
    /\ UNCHANGED <<API_KEY, proc, client, now, files, route, form, interest,
                   written>>

(***************************************************************************)
(* The handler of /test_groq (lines 45-65).                                *)
(***************************************************************************)
TestGroq(r) ==
    /\ proc = "serving"
    /\ pc[r] = "idle"
    /\ route' = [route EXCEPT ![r] = "test_groq"]
    /\ IF client = None
       THEN /\ Return(r, TestNotInitialized)
            /\ UNCHANGED attempts
       ELSE /\ attempts' = [attempts EXCEPT ![r] = Append(@, Pending(1))]
            /\ pc' = [pc EXCEPT ![r] = "test_call"]
            /\ UNCHANGED <<idx, last_error, last_trace, roadmap, filename,
                           resp>>
    /\ UNCHANGED <<log, API_KEY, proc, client, now, files, form, interest,
                   written, budget>>

TestReturns(r) ==
    /\ pc[r] = "test_call"
    /\ \/ \E t \in Texts :
            /\ attempts' = [attempts EXCEPT ![r] = Answered(r, "ok", t)]
            /\ Return(r, TestOk(t, SUPPORTED_MODELS[1]))
            /\ UNCHANGED <<log, budget>>
       \/ \E e \in Errors :
            /\ Raises
            /\ log' = Append(log, [what |-> "Test request failed", error |-> e])
            /\ attempts' = [attempts EXCEPT ![r] = Answered(r, e, <<>>)]
            /\ Return(r, TestFailed(e))
    /\ UNCHANGED <<API_KEY, proc, client, now, files, route, form, interest,
                   written>>

(***************************************************************************)
(* The environment: time passes.                                           *)
(***************************************************************************)
Tick ==
    /\ now < MaxClock
    /\ now' = now + 1
    /\ UNCHANGED <<log, API_KEY, proc, client, files, pc, route, form, interest,
                   idx, last_error, last_trace, roadmap, filename, resp, attempts,
                   written, budget>>

Next ==
    \/ StartupNoKey
    \/ StartupClient
    \/ Tick
    \/ \E r \in Req : Begin(r)
    \/ \E r \in Req : CallReturns(r)
    \/ \E r \in Req : SaveOpen(r)
    \/ \E r \in Req : SaveOpenFails(r)
    \/ \E r \in Req : WriteClose(r)
    \/ \E r \in Req : WriteFails(r)
    \/ \E r \in Req : TestGroq(r)
    \/ \E r \in Req : TestReturns(r)

Spec == Init /\ [][Next]_vars

SpecOne == InitOne /\ [][Next]_vars

\* The handler thread runs on, and every completion call and file operation
\* it waits for comes back (returns or raises).
Fairness ==
    \A r \in Req :
        /\ WF_vars(CallReturns(r))
        /\ WF_vars(SaveOpen(r) \/ SaveOpenFails(r))
        /\ WF_vars(WriteClose(r) \/ WriteFails(r))
        /\ WF_vars(TestReturns(r))

FairSpecOne == SpecOne /\ Fairness

(***************************************************************************)
(* Vocabulary of the properties.                                           *)
(***************************************************************************)
Gen(r) == route[r] = "generate_roadmap"
Done(r) == pc[r] = "done"
InHandler(r) == pc[r] \in {"call", "save", "write", "test_call"}

CallOk(a) == a.result = "ok"
CallFailed(a) == a.result \in Errors

IsSuccess(response) == response.status = 200 /\ "roadmap" \in response.keys
IsAllFailed(response) == response.error = "All models failed"
IsValidation(response) == response.status = 400
IsNoClient(response) ==
    response.error \in {"API client not initialized", "client not initialized"}

\* The number of calls of request r that have not come back yet.
InFlight(r) == Cardinality({k \in 1..Len(attempts[r]) : attempts[r][k].result = "pending"})

\* str.strip(): the string without its leading and trailing whitespace.
IsSpace(c) == c \in {" ", "\t", "\n"}
RECURSIVE LStrip(_)
LStrip(str) ==
    IF str # <<>> /\ IsSpace(Head(str)) THEN LStrip(Tail(str)) ELSE str
RECURSIVE RStrip(_)
RStrip(str) ==
    IF str # <<>> /\ IsSpace(str[Len(str)])
    THEN RStrip(SubSeq(str, 1, Len(str) - 1))
    ELSE str
Strip(str) == RStrip(LStrip(str))

\* The interest of the form is missing, empty or whitespace only.
Blank(f) == ~f.has \/ Strip(f.val) = <<>>

(***************************************************************************)
(* C1. First success wins: once the completion call for some model has     *)
(* succeeded, no later model is invoked in that request, and the request   *)
(* returns a success whose model_used is that model and whose roadmap is   *)
(* that call's completion.                                                 *)
(***************************************************************************)
C1_FirstSuccessWins ==
    \A r \in Req : Gen(r) =>
        \A k \in 1..Len(attempts[r]) : CallOk(attempts[r][k]) =>
            /\ k = Len(attempts[r])
            /\ Done(r) =>
                  /\ IsSuccess(resp[r])
                  /\ resp[r].model_used = attempts[r][k].model
                  /\ resp[r].roadmap = attempts[r][k].text

(***************************************************************************)
(* C2. Aggregate failure only on exhaustion: a request returns 'All models *)
(* failed' if and only if every model of the list was invoked and every    *)
(* call failed, and then details is the error of the last model's call.    *)
(***************************************************************************)
C2_AggregateOnlyOnExhaustion ==
    \A r \in Req : (Gen(r) /\ Done(r)) =>
        /\ IsAllFailed(resp[r]) <=>
              /\ Len(attempts[r]) = N
              /\ \A k \in 1..N : CallFailed(attempts[r][k])
        /\ IsAllFailed(resp[r]) => resp[r].details = attempts[r][N].result

(***************************************************************************)
(* C3. With a usable client, a missing, empty or whitespace-only interest  *)
(* yields the validation error before any model is invoked: no completion  *)
(* call is made and no roadmap file is written.                            *)
(***************************************************************************)
C3_BlankInterestRejected ==
    \A r \in Req : (Gen(r) /\ client # None /\ Blank(form[r])) =>
        /\ attempts[r] = <<>>
        /\ written[r] = {}
        /\ Done(r) /\ IsValidation(resp[r])

(***************************************************************************)
(* C4. Ordered, exactly-once attempts: the k-th call of a request is for   *)
(* the k-th model of the list, at most one call is in flight, model k is   *)
(* invoked only after the calls for models 1..k-1 failed, and when the     *)
(* call for the last model succeeds its result is returned.                *)
(***************************************************************************)
C4_OrderedAttempts ==
    \A r \in Req : Gen(r) =>
        /\ Len(attempts[r]) <= N
        /\ InFlight(r) <= 1
        /\ \A k \in 1..Len(attempts[r]) :
              /\ attempts[r][k].model = SUPPORTED_MODELS[k]
              /\ \A j \in 1..(k - 1) : CallFailed(attempts[r][j])
        /\ (Done(r) /\ Len(attempts[r]) = N /\ CallOk(attempts[r][N])) =>
              /\ IsSuccess(resp[r])
              /\ resp[r].model_used = SUPPORTED_MODELS[N]
              /\ resp[r].roadmap = attempts[r][N].text

(***************************************************************************)
(* C5. No partial success: a finished request that reached the models      *)
(* either returned a success and wrote exactly one roadmap file, or        *)
(* returned the aggregate failure and created or modified no file; an      *)
(* error of the file operations causes no further completion call and      *)
(* never turns a successful completion into the aggregate failure.         *)
(***************************************************************************)
C5_NoPartialSuccess ==
    \A r \in Req : Gen(r) =>
        /\ (Done(r) /\ attempts[r] # <<>>) =>
              \/ IsSuccess(resp[r]) /\ Cardinality(written[r]) = 1
              \/ /\ IsAllFailed(resp[r])
                 /\ written[r] = {}
                 /\ \A k \in 1..Len(attempts[r]) : ~CallOk(attempts[r][k])
        /\ \A k \in 1..(Len(attempts[r]) - 1) : ~CallOk(attempts[r][k])

(***************************************************************************)
(* C6. Concurrent requests need no coordination: two requests that both    *)
(* succeed write to different file names, and the file named in each       *)
(* response holds that request's interest header and roadmap text.         *)
(***************************************************************************)
C6_OwnArtifact ==
    \A r1, r2 \in Req :
        (r1 # r2 /\ Gen(r1) /\ Gen(r2) /\ Done(r1) /\ Done(r2)
           /\ IsSuccess(resp[r1]) /\ IsSuccess(resp[r2])) =>
            /\ resp[r1].filename # resp[r2].filename
            /\ written[r1] \cap written[r2] = {}
            /\ files[resp[r1].filename].data
                  = Document(form[r1].val, resp[r1].roadmap)

(***************************************************************************)
(* C7. When every model fails, the returned failure carries the ordered    *)
(* attempt history: N entries, one per model in list order, each with the  *)
(* error of that model, beside the most recent error.                      *)
(***************************************************************************)
\* What the response tells about the attempts: its traceback entries.
ResponseHistory(response) == response.traceback

C7_FullAttemptHistory ==
    \A r \in Req : (Gen(r) /\ Done(r) /\ IsAllFailed(resp[r])) =>
        /\ Len(ResponseHistory(resp[r])) = N
        /\ \A k \in 1..N : ResponseHistory(resp[r])[k] = attempts[r][k].result

(***************************************************************************)
(* C8 as stated. Configuration errors are fatal at startup and never per   *)
(* request: without a credential the process never serves, and no request  *)
(* ever gets an error response for an unusable client.                     *)
(***************************************************************************)
C8_ConfigFatalAtStartup ==
    /\ API_KEY \in {None, ""} => proc # "serving"
    /\ \A r \in Req : ~IsNoClient(resp[r])

(***************************************************************************)
(* C8 as amended. A missing or empty credential is fatal at startup: the   *)
(* process never serves and no request is handled. A client that cannot    *)
(* be constructed is not fatal: the process serves, and every request then *)
(* gets the 500 'client not initialized' response of its route, with no    *)
(* completion call and no file; with a client no request gets it.          *)
(***************************************************************************)
C8_StartupAndClient ==
    /\ API_KEY \in {None, ""} =>
          /\ proc # "serving"
          /\ \A r \in Req : pc[r] \in {"idle", "absent"} /\ resp[r] = NoResp
    /\ \A r \in Req : Done(r) =>
          /\ proc = "serving"
          /\ IsNoClient(resp[r]) <=> client = None
          /\ client = None =>
                /\ attempts[r] = <<>>
                /\ written[r] = {}
                /\ resp[r] = IF Gen(r) THEN ClientNotInitialized
                                       ELSE TestNotInitialized

\* A request was answered by a process whose client could not be constructed.
C8_Witness ==
    \E r \in Req : Done(r) /\ client = None /\ resp[r] = ClientNotInitialized

(***************************************************************************)
(* C9. Termination with bounded calls.                                     *)
(***************************************************************************)
\* At most N completion calls, never more than one in flight, and a
\* response exactly when the handler is done.
C9_Bounded ==
    \A r \in Req :
        /\ Len(attempts[r]) <= N
        /\ InFlight(r) <= 1
        /\ InFlight(r) = 1 <=> pc[r] \in {"call", "test_call"}
        /\ Done(r) <=> resp[r] # NoResp

\* A response, once returned, is the response of the request.
C9_OneResponse == \A r \in Req : resp[r] # NoResp => resp'[r] = resp[r]

\* Every request in its handler is eventually answered.
C9_Answered == \A r \in Req : InHandler(r) ~> Done(r)

(***************************************************************************)
(* C9 as stated. Every generate_roadmap request eventually returns exactly *)
(* one response, which is a success, the validation error or the aggregate *)
(* failure, after at most N completion calls, never more than one of them  *)
(* in flight.                                                              *)
(***************************************************************************)
C9_TerminationThreeKinds ==
    /\ [](C9_Bounded /\ \A r \in Req : (Gen(r) /\ Done(r)) =>
             \/ IsSuccess(resp[r])
             \/ IsValidation(resp[r])
             \/ IsAllFailed(resp[r]))
    /\ [][C9_OneResponse]_vars
    /\ C9_Answered

(***************************************************************************)
(* C9 as amended. Every generate_roadmap request eventually returns        *)
(* exactly one response, which is a success, the validation error, the     *)
(* aggregate failure or the 'API client not initialized' error, after at   *)
(* most N completion calls, never more than one of them in flight.         *)
(***************************************************************************)
C9_Termination ==
    /\ [](C9_Bounded /\ \A r \in Req : (Gen(r) /\ Done(r)) =>
             \/ IsSuccess(resp[r])
             \/ IsValidation(resp[r])
             \/ IsAllFailed(resp[r])
             \/ resp[r] = ClientNotInitialized)
    /\ [][C9_OneResponse]_vars
    /\ C9_Answered

\* A request was answered after all N calls, each of which failed.
C9_Witness ==
    \E r \in Req :
        /\ Gen(r) /\ Done(r) /\ IsAllFailed(resp[r])
        /\ Len(attempts[r]) = N
        /\ \A k \in 1..N : CallFailed(attempts[r][k])

(***************************************************************************)
(* C10. Statelessness: what a request does and returns is a function only  *)
(* of its interest and of the outcomes of its own completion calls. Two    *)
(* requests with the same interest whose calls had the same outcomes       *)
(* invoke the same models and return the same kind, model and roadmap.     *)
(***************************************************************************)
IsPrefix(s, t) == Len(s) <= Len(t) /\ SubSeq(t, 1, Len(s)) = s

SameOutcome(a, b) ==
    /\ a.status = b.status
    /\ a.error = b.error
    /\ a.details = b.details
    /\ a.model_used = b.model_used
    /\ a.roadmap = b.roadmap

C10_FunctionOfOwnCalls ==
    \A r1, r2 \in Req :
        (r1 # r2 /\ Gen(r1) /\ Gen(r2) /\ form[r1] = form[r2]
           /\ Done(r1) /\ IsPrefix(attempts[r1], attempts[r2])) =>
            /\ attempts[r2] = attempts[r1]
            /\ Done(r2) => SameOutcome(resp[r1], resp[r2])

====
